---- MODULE Spec2Model ----
(***************************************************************************)
(* Model of the PvP rating tracker: the SQLite store (characters,          *)
(* pvp_snapshots, rating_changes), the change detection of                 *)
(* processSnapshot, and the poll orchestrator of tracker.ts (pollOnce,     *)
(* main, the interval timer and the SIGINT handler).                       *)
(*                                                                         *)
(* Time is the value of SQLite's CURRENT_TIMESTAMP, which has a resolution *)
(* of one second: an integer number of seconds that never decreases.  The  *)
(* text form 'YYYY-MM-DD HH:MM:SS' has a fixed width, so its text order is *)
(* the order of these integers.                                            *)
(***************************************************************************)
EXTENDS Integers, Sequences, FiniteSets, TLC

\* ------------------------------------------------------------------ bounds
MaxSnapshots == 2      \* rows of pvp_snapshots the store grows to under Spec
MaxInFlight == 1       \* pollOnce invocations in flight at once under Spec
MaxTime == 1           \* last second of the modelled clock
WideSnapshots == 3     \* rows of pvp_snapshots the store grows to under SpecWide
WideInFlight == 2      \* pollOnce invocations in flight at once under SpecWide
MaxResolves == 3       \* getOrCreateCharacter calls under SpecRegistry

\* ----------------------------------------------------------- configuration
CONFIG ==
  [ characterName |-> "bigbrainwiz",
    realmSlug     |-> "malganis",
    region        |-> "us",
    brackets      |-> <<"shuffle-priest-shadow", "blitz-priest-shadow">> ]

NumBrackets == Len(CONFIG.brackets)

\* getOrCreateCharacter binding its arguments as they are given
toLowerCase_Identity(s) == s

\* String.prototype.toLowerCase on the strings the program handles
toLowerCase(s) ==
  CASE s = "BigBrainWiz" -> "bigbrainwiz"
    [] s = "MalGanis"    -> "malganis"
    [] s = "US"          -> "us"
    [] OTHER             -> s

\* ------------------------------------------------------------ fetched data
Stats(p, w, l) == [played |-> p, won |-> w, lost |-> l]

PvPBracketData(r, season, weekly) ==
  [ rating |-> r,
    season_match_statistics |-> season,
    weekly_match_statistics |-> weekly ]

\* The bodies the bracket endpoint is made to return: a first body, one with
\* more games played (two won, none lost) and one with the played counter of
\* the second and another rating.  Going back to the first body is what a
\* season reset looks like.
FetchData ==
  { PvPBracketData(1500, Stats(10, 6, 4), Stats(2, 1, 1)),
    PvPBracketData(1516, Stats(12, 8, 4), Stats(4, 3, 1)),
    PvPBracketData(1490, Stats(12, 8, 4), Stats(4, 3, 1)) }

\* ------------------------------------------------------------------- state
VARIABLES
  characters,      \* table characters, in insertion order
  snapshots,       \* table pvp_snapshots, in insertion order
  rating_changes,  \* table rating_changes, in insertion order
  clock,           \* CURRENT_TIMESTAMP of the latest statement, in seconds
  mainPc,          \* where main() is
  cycles,          \* the pollOnce invocations in flight, oldest first
  closeCount,      \* calls of closeDb in this process run
  finished,        \* how the pollOnce invocation that returned last ended
  fetched,         \* per bracket, the fetched bodies whose snapshot INSERT ran
  last,            \* the latest processSnapshot call: arguments and outcome
  units,           \* per snapshot, the processSnapshot call that inserted it
  resolves         \* the getOrCreateCharacter calls of SpecRegistry, oldest first

vars == <<characters, snapshots, rating_changes, clock, mainPc, cycles,
          closeCount, finished, fetched, last, units, resolves>>

store == <<characters, snapshots, rating_changes, clock>>

\* --------------------------------------------------------------- the store
\* stmt.get() of a SELECT without a row
Undefined ==
  [ id |-> 0, character_id |-> 0, bracket |-> "", timestamp |-> 0,
    rating |-> 0, season_played |-> 0, season_won |-> 0, season_lost |-> 0,
    weekly_played |-> 0, weekly_won |-> 0, weekly_lost |-> 0 ]

Rows(table) == { table[i] : i \in 1..Len(table) }

PairRows(table, characterId, bracket) ==
  { r \in Rows(table) : r.character_id = characterId /\ r.bracket = bracket }

\* INSERT OR IGNORE INTO characters, under UNIQUE(name, realm_slug, region)
InsertOrIgnoreCharacter(chars, name, realmSlug, region) ==
  IF \E r \in Rows(chars) :
       r.name = name /\ r.realm_slug = realmSlug /\ r.region = region
  THEN chars
  ELSE Append(chars, [ id |-> Len(chars) + 1, name |-> name,
                       realm_slug |-> realmSlug, region |-> region ])

\* getOrCreateCharacter: the table after the call and the id it returns
getOrCreateCharacter(chars, name, realmSlug, region) ==
  LET after == InsertOrIgnoreCharacter(chars, toLowerCase(name),
                                       toLowerCase(realmSlug), toLowerCase(region))
      row   == CHOOSE r \in Rows(after) :
                 /\ r.name = toLowerCase(name)
                 /\ r.realm_slug = toLowerCase(realmSlug)
                 /\ r.region = toLowerCase(region)
  IN  [ characters |-> after, id |-> row.id ]

\* getLatestSnapshot answering from the table as it was one INSERT earlier:
\* what a call would read if another call's INSERT came between its read
\* and its own writes
getLatestSnapshot_Stale(snaps, characterId, bracket) ==
  LET pair == PairRows(SubSeq(snaps, 1, Len(snaps) - 1), characterId, bracket)
  IN  IF pair = {} THEN { Undefined }
      ELSE { r \in pair : \A s \in pair : s.timestamp <= r.timestamp }

\* getLatestSnapshot: ORDER BY timestamp DESC LIMIT 1 names no second sort
\* key, so any row of the pair with the greatest timestamp may be the one
\* returned; the set of the rows the statement may return.
getLatestSnapshot(snaps, characterId, bracket) ==
  LET pair == PairRows(snaps, characterId, bracket)
  IN  IF pair = {} THEN { Undefined }
      ELSE { r \in pair : \A s \in pair : s.timestamp <= r.timestamp }

\* saveSnapshot that skips a body equal to the pair's newest snapshot
saveSnapshot_Dedup(snaps, characterId, bracket, data, now) ==
  LET pair   == PairRows(snaps, characterId, bracket)
      newest == CHOOSE r \in pair : \A q \in pair : q.id <= r.id
  IN  IF /\ pair # {}
         /\ newest.rating = data.rating
         /\ newest.season_played = data.season_match_statistics.played
         /\ newest.weekly_played = data.weekly_match_statistics.played
      THEN snaps
      ELSE Append(snaps,
             [ id            |-> Len(snaps) + 1,
               character_id  |-> characterId,
               bracket       |-> bracket,
               timestamp     |-> now,
               rating        |-> data.rating,
               season_played |-> data.season_match_statistics.played,
               season_won    |-> data.season_match_statistics.won,
               season_lost   |-> data.season_match_statistics.lost,
               weekly_played |-> data.weekly_match_statistics.played,
               weekly_won    |-> data.weekly_match_statistics.won,
               weekly_lost   |-> data.weekly_match_statistics.lost ])

\* saveSnapshot as INSERT OR REPLACE keyed by the pair: the pair's newest
\* snapshot is overwritten
saveSnapshot_Upsert(snaps, characterId, bracket, data, now) ==
  LET pair   == PairRows(snaps, characterId, bracket)
      newest == CHOOSE r \in pair : \A q \in pair : q.id <= r.id
      at     == IF pair = {} THEN Len(snaps) + 1 ELSE newest.id
      row    == [ id            |-> at,
                  character_id  |-> characterId,
                  bracket       |-> bracket,
                  timestamp     |-> now,
                  rating        |-> data.rating,
                  season_played |-> data.season_match_statistics.played,
                  season_won    |-> data.season_match_statistics.won,
                  season_lost   |-> data.season_match_statistics.lost,
                  weekly_played |-> data.weekly_match_statistics.played,
                  weekly_won    |-> data.weekly_match_statistics.won,
                  weekly_lost   |-> data.weekly_match_statistics.lost ]
  IN  IF pair = {} THEN Append(snaps, row) ELSE [ snaps EXCEPT ![at] = row ]

\* saveSnapshot: the table after the INSERT executed at second now
saveSnapshot(snaps, characterId, bracket, data, now) ==
  Append(snaps,
    [ id            |-> Len(snaps) + 1,
      character_id  |-> characterId,
      bracket       |-> bracket,
      timestamp     |-> now,
      rating        |-> data.rating,
      season_played |-> data.season_match_statistics.played,
      season_won    |-> data.season_match_statistics.won,
      season_lost   |-> data.season_match_statistics.lost,
      weekly_played |-> data.weekly_match_statistics.played,
      weekly_won    |-> data.weekly_match_statistics.won,
      weekly_lost   |-> data.weekly_match_statistics.lost ])

\* recordRatingChange with gamesWon and gamesLost bound in the other order
recordRatingChange_SwappedWonLost(changes, characterId, bracket, oldRating, newRating, gamesPlayed, gamesWon, gamesLost, now) ==
  Append(changes,
    [ id            |-> Len(changes) + 1,
      character_id  |-> characterId,
      bracket       |-> bracket,
      timestamp     |-> now,
      old_rating    |-> oldRating,
      new_rating    |-> newRating,
      rating_change |-> newRating - oldRating,
      games_played  |-> gamesPlayed,
      games_won     |-> gamesLost,
      games_lost    |-> gamesWon ])

\* recordRatingChange: the table after the INSERT executed at second now
recordRatingChange(changes, characterId, bracket, oldRating, newRating, gamesPlayed, gamesWon, gamesLost, now) ==
  Append(changes,
    [ id            |-> Len(changes) + 1,
      character_id  |-> characterId,
      bracket       |-> bracket,
      timestamp     |-> now,
      old_rating    |-> oldRating,
      new_rating    |-> newRating,
      rating_change |-> newRating - oldRating,
      games_played  |-> gamesPlayed,
      games_won     |-> gamesWon,
      games_lost    |-> gamesLost ])

\* getRatingChanges: ORDER BY timestamp ASC names no second sort key, so rows
\* of one timestamp may come in any order; the set of the sequences the
\* statement may return.  An absent bracket is "", which the test
\* if (bracket) takes for absent as well.
getRatingChanges(changes, characterId, bracket) ==
  LET sel == { r \in Rows(changes) :
                 /\ r.character_id = characterId
                 /\ bracket = "" \/ r.bracket = bracket }
      n   == Cardinality(sel)
  IN  { s \in [ 1..n -> sel ] :
          /\ \A i, j \in 1..n : i < j => s[i] # s[j]
          /\ \A i, j \in 1..n : i < j => s[i].timestamp <= s[j].timestamp }

\* -------------------------------------------------------- processSnapshot
\* the statements of processSnapshot that may throw a SqliteError
FailPoints == { "none", "latest", "save", "record" }

\* processSnapshot without its test for a missing snapshot
IsFirstSnapshot_Never(lastSnapshot) == FALSE

\* if (!lastSnapshot)
IsFirstSnapshot(lastSnapshot) == lastSnapshot.id = 0

\* gamesPlayedDiff as the season total of the fetched body
gamesPlayedDiff_SeasonTotal(currentData, lastSnapshot) ==
  currentData.season_match_statistics.played

\* const gamesPlayedDiff = ... .played - lastSnapshot.season_played
gamesPlayedDiff(currentData, lastSnapshot) ==
  currentData.season_match_statistics.played - lastSnapshot.season_played

\* the test of processSnapshot written as gamesPlayedDiff !== 0
GamesWerePlayed_AnyDifference(currentData, lastSnapshot) ==
  gamesPlayedDiff(currentData, lastSnapshot) # 0

\* the test of processSnapshot written as gamesPlayedDiff >= 0
GamesWerePlayed_OrEqual(currentData, lastSnapshot) ==
  gamesPlayedDiff(currentData, lastSnapshot) >= 0

\* if (gamesPlayedDiff > 0)
GamesWerePlayed(currentData, lastSnapshot) ==
  gamesPlayedDiff(currentData, lastSnapshot) > 0

\* processSnapshot(characterId, bracket, currentData) run on the tables snaps
\* and changes, where lastSnapshot is the row getLatestSnapshot returned,
\* fail the statement that throws, now the second of the snapshot's INSERT
\* and later the second of the rating change's INSERT.
processSnapshot(snaps, changes, characterId, bracket, currentData, lastSnapshot, fail, now, later) ==
  LET saved == saveSnapshot(snaps, characterId, bracket, currentData, now)
      recorded ==
        recordRatingChange(changes, characterId, bracket,
          lastSnapshot.rating, currentData.rating,
          gamesPlayedDiff(currentData, lastSnapshot),
          currentData.season_match_statistics.won - lastSnapshot.season_won,
          currentData.season_match_statistics.lost - lastSnapshot.season_lost,
          later)
  IN
  IF fail = "latest" THEN
    [ snapshots |-> snaps, rating_changes |-> changes, clock |-> now,
      threw |-> TRUE, changed |-> FALSE, ratingChange |-> 0 ]
  ELSE IF fail = "save" THEN
    [ snapshots |-> snaps, rating_changes |-> changes, clock |-> now,
      threw |-> TRUE, changed |-> FALSE, ratingChange |-> 0 ]
  ELSE IF IsFirstSnapshot(lastSnapshot) THEN
    [ snapshots |-> saved, rating_changes |-> changes, clock |-> now,
      threw |-> FALSE, changed |-> FALSE, ratingChange |-> 0 ]
  ELSE IF GamesWerePlayed(currentData, lastSnapshot) THEN
    IF fail = "record" THEN
      [ snapshots |-> saved, rating_changes |-> changes, clock |-> later,
        threw |-> TRUE, changed |-> FALSE, ratingChange |-> 0 ]
    ELSE
      [ snapshots |-> saved, rating_changes |-> recorded, clock |-> later,
        threw |-> FALSE, changed |-> TRUE,
        ratingChange |-> currentData.rating - lastSnapshot.rating ]
  ELSE
    [ snapshots |-> saved, rating_changes |-> changes, clock |-> now,
      threw |-> FALSE, changed |-> FALSE, ratingChange |-> 0 ]

\* ------------------------------------------------------------ orchestrator
\* a pollOnce invocation in flight: awaiting the token, or awaiting the fetch
\* of bracket idx
NewCycle == [ pc |-> "token", idx |-> 0, characterId |-> 0 ]

Running == mainPc \in { "once", "initial", "interval" }

\* the sequence s without its element c
Remove(s, c) == SubSeq(s, 1, c - 1) \o SubSeq(s, c + 1, Len(s))

NoData == PvPBracketData(0, Stats(0, 0, 0), Stats(0, 0, 0))

NoCall ==
  [ called |-> FALSE, characterId |-> 0, bracket |-> "", currentData |-> NoData,
    lastSnapshot |-> Undefined, snapshotsBefore |-> 0, changesBefore |-> 0,
    fail |-> "none", threw |-> FALSE, changed |-> FALSE, ratingChange |-> 0 ]

\* a processSnapshot call that threw at the statement fail returned nothing
Threw(fail) == [ NoCall EXCEPT !.called = TRUE, !.fail = fail, !.threw = TRUE ]

\* no pollOnce invocation has returned since the latest one started
NotFinished == [ err |-> "running", idx |-> 0 ]

\* the seconds CURRENT_TIMESTAMP may show at the next statement
Seconds(from) == { t \in from..(from + 1) : t <= MaxTime }

Init ==
  /\ characters = <<>>
  /\ snapshots = <<>>
  /\ rating_changes = <<>>
  /\ clock = 0
  /\ mainPc = "start"
  /\ cycles = <<>>
  /\ closeCount = 0
  /\ finished = NotFinished
  /\ fetched = [ b \in 1..NumBrackets |-> 0 ]
  /\ last = NoCall
  /\ units = <<>>
  /\ resolves = <<>>

\* main with --stats: showStats, closeDb, return.  showStats resolves the
\* character and prints what getRatingChanges returns for each bracket, which
\* changes no table.  A SqliteError thrown by showStats rejects main(), whose
\* catch only prints it.
MainStats(fail) ==
  /\ mainPc = "start"
  /\ IF fail
     THEN UNCHANGED <<characters, closeCount>>
     ELSE /\ characters' = getOrCreateCharacter(characters, CONFIG.characterName,
                             CONFIG.realmSlug, CONFIG.region).characters
          /\ closeCount' = closeCount + 1
  /\ mainPc' = "exited"
  /\ UNCHANGED <<snapshots, rating_changes, clock, cycles, finished, fetched, last, units, resolves>>

\* main with --once: pollOnce runs up to its first await
MainOnce ==
  /\ mainPc = "start"
  /\ mainPc' = "once"
  /\ cycles' = <<NewCycle>>
  /\ UNCHANGED <<store, closeCount, finished, fetched, last, units, resolves>>

\* main with --once, after await pollOnce(): closeDb, return
OnceDone ==
  /\ mainPc = "once"
  /\ cycles = <<>>
  /\ mainPc' = "exited"
  /\ closeCount' = closeCount + 1
  /\ finished' = NotFinished
  /\ UNCHANGED <<store, cycles, fetched, last, units, resolves>>

\* main without arguments: the initial poll runs up to its first await
MainContinuous ==
  /\ mainPc = "start"
  /\ mainPc' = "initial"
  /\ cycles' = <<NewCycle>>
  /\ UNCHANGED <<store, closeCount, finished, fetched, last, units, resolves>>

\* after await pollOnce(): setInterval and process.on('SIGINT')
SetUpInterval ==
  /\ mainPc = "initial"
  /\ cycles = <<>>
  /\ mainPc' = "interval"
  /\ UNCHANGED <<store, cycles, closeCount, finished, fetched, last, units, resolves>>

\* the interval timer calls pollOnce, which runs up to its first await
TimerFire(maxInFlight) ==
  /\ mainPc = "interval"
  /\ Len(cycles) < maxInFlight
  /\ cycles' = Append(cycles, NewCycle)
  /\ finished' = NotFinished
  /\ UNCHANGED <<store, mainPc, closeCount, fetched, last, units, resolves>>

\* SIGINT: the handler of main once it is registered, else the default
\* disposition; either ends the process and the invocations in flight
Sigint ==
  /\ Running
  /\ mainPc' = "exited"
  /\ cycles' = <<>>
  /\ closeCount' = IF mainPc = "interval" THEN closeCount + 1 ELSE closeCount
  /\ finished' = NotFinished
  /\ UNCHANGED <<store, fetched, last, units, resolves>>

\* the next run of the program on the same database file
Restart ==
  /\ mainPc = "exited"
  /\ mainPc' = "start"
  /\ closeCount' = 0
  /\ UNCHANGED <<store, cycles, finished, fetched, last, units, resolves>>

\* the invocation c returns, from the end of the try block or from the
\* catch block
Finish(c, err) ==
  /\ cycles' = Remove(cycles, c)
  /\ finished' = [ err |-> err, idx |-> cycles[c].idx ]

\* the loop of pollOnce goes on to the fetch of the next bracket, or ends
NextBracket(c) ==
  IF cycles[c].idx < NumBrackets
  THEN /\ cycles' = [ cycles EXCEPT ![c].idx = @ + 1 ]
       /\ UNCHANGED finished
  ELSE Finish(c, "none")

\* pollOnce resumes from await getAccessToken(): a rejection goes to the
\* catch block; else getOrCreateCharacter, then the first fetch
TokenReturn(c, ok, fail) ==
  /\ Running
  /\ c \in 1..Len(cycles)
  /\ cycles[c].pc = "token"
  /\ IF ~ok THEN
       /\ Finish(c, "auth")
       /\ UNCHANGED characters
     ELSE IF fail THEN
       /\ Finish(c, "storage")
       /\ UNCHANGED characters
     ELSE
       LET got == getOrCreateCharacter(characters, CONFIG.characterName,
                                       CONFIG.realmSlug, CONFIG.region)
       IN  /\ characters' = got.characters
           /\ cycles' = [ cycles EXCEPT ![c] = [ pc |-> "fetch", idx |-> 1,
                                                 characterId |-> got.id ] ]
           /\ UNCHANGED finished
  /\ UNCHANGED <<snapshots, rating_changes, clock, mainPc, closeCount, fetched, last, units, resolves>>

\* pollOnce resumes from await fetchPvPBracket() with a rejection: a status
\* that is neither ok nor 404, a network error or a body that is not JSON
FetchError(c) ==
  /\ Running
  /\ c \in 1..Len(cycles)
  /\ cycles[c].pc = "fetch"
  /\ Finish(c, "fetch")
  /\ UNCHANGED <<store, mainPc, closeCount, fetched, last, units, resolves>>

\* pollOnce storing an empty snapshot for a bracket that answered 404
FetchNotFound_StoresEmpty(c) ==
  /\ Running
  /\ c \in 1..Len(cycles)
  /\ cycles[c].pc = "fetch"
  /\ NextBracket(c)
  /\ snapshots' = saveSnapshot(snapshots, cycles[c].characterId,
                               CONFIG.brackets[cycles[c].idx], NoData, clock)
  /\ UNCHANGED <<characters, rating_changes, clock, mainPc, closeCount, fetched, last, units, resolves>>

\* pollOnce resumes from await fetchPvPBracket() with null: status 404
FetchNotFound(c) ==
  /\ Running
  /\ c \in 1..Len(cycles)
  /\ cycles[c].pc = "fetch"
  /\ NextBracket(c)
  /\ UNCHANGED <<store, mainPc, closeCount, fetched, last, units, resolves>>

\* pollOnce resumes from await fetchPvPBracket() with data: processSnapshot,
\* whose SqliteError goes to the catch block
FetchReturn(c, data, lastSnapshot, fail, now, later, maxSnapshots) ==
  /\ Running
  /\ c \in 1..Len(cycles)
  /\ cycles[c].pc = "fetch"
  /\ Len(snapshots) < maxSnapshots
  /\ LET characterId == cycles[c].characterId
         bracket     == CONFIG.brackets[cycles[c].idx]
         result      == processSnapshot(snapshots, rating_changes, characterId,
                          bracket, data, lastSnapshot, fail, now, later)
     IN  /\ lastSnapshot \in getLatestSnapshot(snapshots, characterId, bracket)
         /\ snapshots' = result.snapshots
         /\ rating_changes' = result.rating_changes
         /\ clock' = result.clock
         /\ fetched' = IF fail \in { "latest", "save" } THEN fetched
                        ELSE [ fetched EXCEPT ![cycles[c].idx] = @ + 1 ]
         /\ units' = IF result.snapshots = snapshots THEN units
                      ELSE Append(units, [ against |-> lastSnapshot.id,
                                           completed |-> ~result.threw ])
         /\ IF result.threw THEN Finish(c, "storage")
                            ELSE NextBracket(c)
         /\ last' = IF result.threw /\ fail # "none" THEN Threw(fail)
                     ELSE [ called |-> TRUE, characterId |-> characterId,
                            bracket |-> bracket, currentData |-> data,
                            lastSnapshot |-> lastSnapshot,
                            snapshotsBefore |-> Len(snapshots),
                            changesBefore |-> Len(rating_changes),
                            fail |-> "none", threw |-> result.threw,
                            changed |-> result.changed,
                            ratingChange |-> result.ratingChange ]
  /\ UNCHANGED <<characters, mainPc, closeCount, resolves>>

\* the steps of the program while the store has fewer than maxSnapshots
\* snapshots and fewer than maxInFlight invocations are in flight
Step(maxSnapshots, maxInFlight) ==
  \/ \E fail \in BOOLEAN : MainStats(fail)
  \/ MainOnce
  \/ OnceDone
  \/ MainContinuous
  \/ SetUpInterval
  \/ TimerFire(maxInFlight)
  \/ Sigint
  \/ Restart
  \/ \E c \in 1..maxInFlight, ok \in BOOLEAN, fail \in BOOLEAN : TokenReturn(c, ok, fail)
  \/ \E c \in 1..maxInFlight : FetchError(c)
  \/ \E c \in 1..maxInFlight : FetchNotFound(c)
  \/ \E c \in 1..maxInFlight, data \in FetchData, fail \in FailPoints,
        now \in Seconds(clock) :
       \E later \in Seconds(now), lastSnapshot \in Rows(snapshots) \cup { Undefined } :
         FetchReturn(c, data, lastSnapshot, fail, now, later, maxSnapshots)

Next == Step(MaxSnapshots, MaxInFlight)

Spec == Init /\ [][Next]_vars

\* the same program, let run further: a third snapshot, two invocations at once
NextWide == Step(WideSnapshots, WideInFlight)

SpecWide == Init /\ [][NextWide]_vars

\* ---------------------------------------------------- the character registry
\* the arguments getOrCreateCharacter is called with under SpecRegistry: the
\* configured character in two spellings, and another character
Names == { "bigbrainwiz", "BigBrainWiz", "foo" }
RealmSlugs == { "malganis", "MalGanis" }
Regions == { "us", "US" }

\* a call of getOrCreateCharacter(name, realmSlug, region)
Resolve(name, realmSlug, region) ==
  /\ Len(resolves) < MaxResolves
  /\ LET got == getOrCreateCharacter(characters, name, realmSlug, region)
     IN  /\ characters' = got.characters
         /\ resolves' = Append(resolves, [ name |-> name, realmSlug |-> realmSlug,
                                           region |-> region, id |-> got.id ])
  /\ UNCHANGED <<snapshots, rating_changes, clock, mainPc, cycles, closeCount, finished, fetched, last, units>>

NextRegistry ==
  \E name \in Names, realmSlug \in RealmSlugs, region \in Regions :
    Resolve(name, realmSlug, region)

SpecRegistry == Init /\ [][NextRegistry]_vars

TypeOK ==
  /\ clock \in 0..MaxTime
  /\ Len(rating_changes) <= Len(snapshots)
  /\ mainPc \in { "start", "once", "initial", "interval", "exited" }

\* ------------------------------------------------------------------ claims
\* the latest processSnapshot call ran with no statement throwing
Returned == last.called /\ last.fail = "none"

\* the tables as they were when the latest processSnapshot call started
SnapshotsBefore == SubSeq(snapshots, 1, last.snapshotsBefore)

\* P and C of the latest call: the row getLatestSnapshot returned, the body
P == last.lastSnapshot
C == last.currentData

HadPrevious == P.id # 0

NewestSnapshot == snapshots[Len(snapshots)]
NewestChange == rating_changes[Len(rating_changes)]

\* the newest snapshot is a row of the latest call's pair with the body's values
StoredCurrent ==
  /\ Len(snapshots) = last.snapshotsBefore + 1
  /\ NewestSnapshot.character_id = last.characterId
  /\ NewestSnapshot.bracket = last.bracket
  /\ NewestSnapshot.rating = C.rating
  /\ NewestSnapshot.season_played = C.season_match_statistics.played
  /\ NewestSnapshot.season_won = C.season_match_statistics.won
  /\ NewestSnapshot.season_lost = C.season_match_statistics.lost
  /\ NewestSnapshot.weekly_played = C.weekly_match_statistics.played
  /\ NewestSnapshot.weekly_won = C.weekly_match_statistics.won
  /\ NewestSnapshot.weekly_lost = C.weekly_match_statistics.lost

NoChangeAppended ==
  /\ ~last.changed
  /\ rating_changes = SubSeq(rating_changes, 1, last.changesBefore)

\* C1: a call whose body has a greater seasonPlayed than P, the snapshot that
\* getLatestSnapshot returned at its start, reports a change and appends
\* exactly one rating change: old and new rating of P and the body, and the
\* differences of rating, played, won and lost between the body and P.
C1_ActivityRecorded ==
  ( /\ Returned
    /\ HadPrevious
    /\ C.season_match_statistics.played > P.season_played )
  => /\ P \in getLatestSnapshot(SnapshotsBefore, last.characterId, last.bracket)
     /\ last.changed
     /\ last.ratingChange = C.rating - P.rating
     /\ Len(rating_changes) = last.changesBefore + 1
     /\ NewestChange.character_id = last.characterId
     /\ NewestChange.bracket = last.bracket
     /\ NewestChange.old_rating = P.rating
     /\ NewestChange.new_rating = C.rating
     /\ NewestChange.rating_change = C.rating - P.rating
     /\ NewestChange.games_played = C.season_match_statistics.played - P.season_played
     /\ NewestChange.games_won = C.season_match_statistics.won - P.season_won
     /\ NewestChange.games_lost = C.season_match_statistics.lost - P.season_lost

\* a call has recorded two games, both won, with a rating of sixteen more
C1_Witness ==
  /\ Returned /\ HadPrevious /\ last.changed
  /\ Len(rating_changes) = last.changesBefore + 1
  /\ NewestChange.games_played = 2
  /\ NewestChange.games_won = 2
  /\ NewestChange.games_lost = 0
  /\ NewestChange.rating_change = 16

\* C2: a call whose body has a seasonPlayed equal to or lower than that of
\* the previous snapshot reports no change and appends no rating change,
\* whatever the two ratings are.
C2_NoActivityNoChange ==
  ( /\ Returned
    /\ HadPrevious
    /\ C.season_match_statistics.played <= P.season_played )
  => NoChangeAppended

\* a call found a lower played counter (a season reset) and another rating
C2_Witness ==
  /\ Returned /\ HadPrevious
  /\ C.season_match_statistics.played < P.season_played
  /\ C.rating # P.rating
  /\ NoChangeAppended

\* C3: a call that finds no snapshot of its pair does not throw, reports no
\* change, appends no rating change and stores the body as a snapshot.
C3_FirstSnapshot ==
  ( /\ Returned
    /\ ~HadPrevious )
  => /\ ~last.threw
     /\ PairRows(SnapshotsBefore, last.characterId, last.bracket) = {}
     /\ NoChangeAppended
     /\ StoredCurrent

\* the first snapshot of the second bracket is stored after the first
\* bracket has had its own
C3_Witness ==
  /\ Returned /\ ~HadPrevious /\ ~last.threw
  /\ last.bracket = CONFIG.brackets[2]
  /\ last.snapshotsBefore = 1
  /\ StoredCurrent

\* C4: every call that runs with no statement throwing appends exactly one
\* snapshot of its pair, with the values of the body, also when they are the
\* values of the previous snapshot; so each pair has as many snapshots as
\* bodies were fetched and stored for it.
C4_OneSnapshotPerFetch ==
  /\ Returned => StoredCurrent
  /\ \A b \in 1..NumBrackets :
       Cardinality({ r \in Rows(snapshots) : r.bracket = CONFIG.brackets[b] })
         = fetched[b]

\* the second fetch of a bracket brought the values of the first, and the
\* pair has two snapshots
C4_Witness ==
  /\ Returned /\ HadPrevious /\ StoredCurrent
  /\ P.rating = C.rating
  /\ P.season_played = C.season_match_statistics.played
  /\ P.weekly_played = C.weekly_match_statistics.played
  /\ fetched[1] = 2
  /\ last.bracket = CONFIG.brackets[1]

\* the snapshot of the latest call's pair that was inserted last before it
InsertedLast ==
  LET pair == PairRows(SnapshotsBefore, last.characterId, last.bracket)
  IN  IF pair = {} THEN Undefined
      ELSE CHOOSE r \in pair : \A q \in pair : q.id <= r.id

\* the body of the latest call is the body that was stored just before it
SameAsInsertedLast ==
  /\ InsertedLast.id # 0
  /\ InsertedLast.rating = C.rating
  /\ InsertedLast.season_played = C.season_match_statistics.played
  /\ InsertedLast.season_won = C.season_match_statistics.won
  /\ InsertedLast.season_lost = C.season_match_statistics.lost
  /\ InsertedLast.weekly_played = C.weekly_match_statistics.played
  /\ InsertedLast.weekly_won = C.weekly_match_statistics.won
  /\ InsertedLast.weekly_lost = C.weekly_match_statistics.lost

\* C5: processing the body that was processed just before for the same pair
\* appends no rating change.
C5_RepollAppendsNothing ==
  ( Returned /\ SameAsInsertedLast ) => NoChangeAppended

\* what latest is to return: of the pair's snapshots with the greatest
\* timestamp the one inserted last, and nothing only if the pair has none
LatestByTimestampThenInsertion(snaps, characterId, bracket) ==
  LET pair == PairRows(snaps, characterId, bracket)
  IN  IF pair = {} THEN Undefined
      ELSE CHOOSE r \in pair :
             \A q \in pair :
               \/ q.timestamp < r.timestamp
               \/ q.timestamp = r.timestamp /\ q.id <= r.id

\* C6: getLatestSnapshot returns the pair's snapshot with the greatest
\* timestamp and, among several with that timestamp, the one inserted last;
\* it returns nothing only if the pair has no snapshot.
C6_LatestBreaksTiesByInsertion ==
  Returned =>
    P = LatestByTimestampThenInsertion(SnapshotsBefore, last.characterId, last.bracket)

\* C7: every rating change has games_played > 0 and a rating_change equal to
\* new_rating - old_rating, of any sign.
C7_RatingChangeRows ==
  \A r \in Rows(rating_changes) :
    /\ r.games_played > 0
    /\ r.rating_change = r.new_rating - r.old_rating

\* a rating change with a negative rating delta is stored
C7_Witness ==
  \E r \in Rows(rating_changes) : r.rating_change < 0 /\ r.games_played > 0

\* C8: an invocation of pollOnce that a failed fetch ended had issued the
\* fetch of every configured bracket.
C8_FetchFailureSkipsNoBracket ==
  finished.err = "fetch" => finished.idx = NumBrackets

\* C9: once a database statement has thrown in a polling cycle, no further
\* polling cycle starts.
C9_StorageFailureEndsRun ==
  [][ finished.err = "storage" => Len(cycles') <= Len(cycles) ]_vars

\* C10: at most one invocation of pollOnce is in flight.
C10_OneCycleInFlight ==
  Len(cycles) <= 1

\* the entries of the history h that are of the bracket b, in the order of h
OfBracket(h, b) ==
  LET Keep(r) == r.bracket = b
  IN  SelectSeq(h, Keep)

CasePairs ==
  { <<"BigBrainWiz", "bigbrainwiz">>, <<"MalGanis", "malganis">>, <<"US", "us">> }

SameButCase(a, b) == a = b \/ <<a, b>> \in CasePairs \/ <<b, a>> \in CasePairs

\* the calls x and y name one character
SameCharacter(x, y) ==
  /\ SameButCase(x.name, y.name)
  /\ SameButCase(x.realmSlug, y.realmSlug)
  /\ SameButCase(x.region, y.region)

\* C12: getOrCreateCharacter is idempotent and blind to letter case: two
\* calls return the same id exactly if their arguments differ in letter case
\* at most, whenever they are made; the id is that of the one row of
\* characters that holds the triple, and no two rows hold the same triple.
C12_OneCharacterPerTriple ==
  /\ \A i, j \in 1..Len(resolves) :
       SameCharacter(resolves[i], resolves[j]) <=> resolves[i].id = resolves[j].id
  /\ \A i \in 1..Len(resolves) :
       \E k \in 1..Len(characters) :
         /\ characters[k].id = resolves[i].id
         /\ SameButCase(characters[k].name, resolves[i].name)
         /\ SameButCase(characters[k].realm_slug, resolves[i].realmSlug)
         /\ SameButCase(characters[k].region, resolves[i].region)
  /\ \A k, l \in 1..Len(characters) :
       ( k # l ) =>
         /\ characters[k].id # characters[l].id
         /\ ~ ( /\ SameButCase(characters[k].name, characters[l].name)
                /\ SameButCase(characters[k].realm_slug, characters[l].realm_slug)
                /\ SameButCase(characters[k].region, characters[l].region) )

\* the configured character resolved in two spellings with one id, before
\* and after another character was resolved with another id
C12_Witness ==
  /\ Len(resolves) = 3
  /\ resolves[1].name = "BigBrainWiz" /\ resolves[1].realmSlug = "MalGanis"
  /\ resolves[1].region = "US"
  /\ resolves[2].name = "foo" /\ resolves[2].id # resolves[1].id
  /\ resolves[3].name = "bigbrainwiz" /\ resolves[3].realmSlug = "malganis"
  /\ resolves[3].region = "us"
  /\ resolves[3].id = resolves[1].id
  /\ Len(characters) = 2

\* the table s is the beginning of the table t
IsPrefix(s, t) == Len(s) <= Len(t) /\ SubSeq(t, 1, Len(s)) = s

\* the row is of the pair whose fetch an invocation in flight is awaiting
OfAwaitedPair(row) ==
  \E c \in 1..Len(cycles) :
    /\ cycles[c].pc = "fetch"
    /\ row.character_id = cycles[c].characterId
    /\ row.bracket = CONFIG.brackets[cycles[c].idx]

\* C13: no step changes or removes a row of pvp_snapshots or rating_changes:
\* each table only grows at its end, so the rows of every pair do; and the
\* rows a processSnapshot call adds, at most one to each table, are rows of
\* the pair the call is made for.
C13_AppendOnly ==
  [][ /\ IsPrefix(snapshots, snapshots')
      /\ IsPrefix(rating_changes, rating_changes')
      /\ Len(snapshots') <= Len(snapshots) + 1
      /\ Len(rating_changes') <= Len(rating_changes) + 1
      /\ \A i \in (Len(snapshots) + 1)..Len(snapshots') :
           /\ OfAwaitedPair(snapshots'[i])
           /\ last'.fail = "none" =>
                /\ snapshots'[i].character_id = last'.characterId
                /\ snapshots'[i].bracket = last'.bracket
      /\ \A i \in (Len(rating_changes) + 1)..Len(rating_changes') :
           /\ OfAwaitedPair(rating_changes'[i])
           /\ rating_changes'[i].character_id = last'.characterId
           /\ rating_changes'[i].bracket = last'.bracket
    ]_vars

\* a pair has got a second snapshot and a rating change after its first
\* snapshot was stored; the first snapshot is as it was stored
C13_Witness ==
  /\ Len(snapshots) = 2 /\ Len(rating_changes) = 1
  /\ snapshots[1].bracket = snapshots[2].bracket
  /\ snapshots[1].id = 1 /\ snapshots[1].season_played = 10
  /\ snapshots[2].season_played = 12
  /\ rating_changes[1].bracket = snapshots[2].bracket

\* the unit of work that stored the snapshot row was cut short after the
\* INSERT of the snapshot and before the INSERT of its rating change
Interrupted(row) == row.id # 0 /\ ~units[row.id].completed

\* the games of the interval that the interrupted unit of row had found
InterruptedGames(row) ==
  row.season_played - snapshots[units[row.id].against].season_played

\* C14: when a unit of work was cut short between the INSERT of its snapshot
\* and the INSERT of its rating change, the next call for the pair, which
\* takes that snapshot as the previous one, records a rating change that
\* holds the games of the interrupted interval: they are not lost.
C14_InterruptedGamesRecorded ==
  ( Returned /\ HadPrevious /\ Interrupted(P) )
  => /\ last.changed
     /\ Len(rating_changes) = last.changesBefore + 1
     /\ NewestChange.games_played >= InterruptedGames(P)

\* the invocation c goes on from the fetch it awaits to the next bracket
WentOn(c) ==
  /\ Len(cycles') = Len(cycles)
  /\ cycles'[c] = [ cycles[c] EXCEPT !.idx = @ + 1 ]

\* the invocation c returns from the end of its try block
ReturnedNormally(c) ==
  /\ cycles' = Remove(cycles, c)
  /\ finished' = [ err |-> "none", idx |-> cycles[c].idx ]

\* C15: when the fetch of a bracket answers 404, pollOnce passes the bracket
\* by without calling processSnapshot: the step stores no snapshot and no
\* rating change, raises no error, and the invocation goes on to the next
\* bracket, returning only after the last one.
C15_NotFoundSkipsBracket ==
  [][ \A c \in 1..Len(cycles) :
        ( /\ cycles[c].pc = "fetch"
          /\ last' = last
          /\ WentOn(c) \/ ReturnedNormally(c) )
        => /\ snapshots' = snapshots
           /\ rating_changes' = rating_changes
           /\ characters' = characters
           /\ finished' = finished \/ finished'.err = "none"
           /\ cycles[c].idx < NumBrackets =>
                WentOn(c) /\ cycles'[c].pc = "fetch"
    ]_vars

\* the first bracket of the first poll answered 404: nothing is stored, no
\* error was caught, and the fetch of the second bracket is awaited
C15_Witness ==
  /\ snapshots = <<>> /\ rating_changes = <<>>
  /\ last = NoCall
  /\ finished = NotFinished
  /\ \E c \in 1..Len(cycles) : cycles[c].pc = "fetch" /\ cycles[c].idx = 2

\* C16: the run of the statistics command, the only step that takes main
\* from its start to its exit, changes no row of characters, pvp_snapshots
\* or rating_changes, from any stored state, the empty store included.
C16_StatsReadOnly ==
  [][ ( mainPc = "start" /\ mainPc' = "exited" )
      => /\ characters' = characters
         /\ snapshots' = snapshots
         /\ rating_changes' = rating_changes
    ]_vars

\* C17: whenever the process has exited, closeDb has been called exactly
\* once in that run: after the one-shot poll and after the statistics, after
\* an error thrown by a command, and after a signal at any point.
C17_ClosedOnceOnExit ==
  mainPc = "exited" => closeCount = 1

RECURSIVE SumGamesPlayed(_)
\* the games_played of the rating changes in the set, added up
SumGamesPlayed(changes) ==
  IF changes = {} THEN 0
  ELSE LET r == CHOOSE x \in changes : TRUE
       IN  r.games_played + SumGamesPlayed(changes \ { r })

\* the snapshots of the pair were all stored by calls that ran to their end,
\* at distinct timestamps, with a season played that never went down
SteadyPair(pair) ==
  /\ pair # {}
  /\ \A r \in pair : units[r.id].completed
  /\ \A r, q \in pair : r.id < q.id =>
       /\ r.timestamp # q.timestamp
       /\ r.season_played <= q.season_played

PredecessorId(pair, row) ==
  LET before == { q \in pair : q.id < row.id }
  IN  IF before = {} THEN 0
      ELSE (CHOOSE q \in before : \A x \in before : x.id <= q.id).id

PostReset(row) ==
  /\ row.id # 0
  /\ units[row.id].against # 0
  /\ row.season_played < snapshots[units[row.id].against].season_played

\* C20: a poll that finds a lower season played than the previous snapshot
\* records no rating change and its snapshot becomes the new baseline: the
\* next poll of the pair, if it finds a higher season played than that
\* snapshot, records a rating change computed against it and not against
\* a snapshot from before the reset.
C20_ResetBaseline ==
  /\ ( Returned /\ HadPrevious /\ C.season_match_statistics.played < P.season_played )
     => NoChangeAppended /\ StoredCurrent
  /\ ( /\ Returned
       /\ PostReset(InsertedLast)
       /\ C.season_match_statistics.played > InsertedLast.season_played )
     => /\ last.changed
        /\ Len(rating_changes) = last.changesBefore + 1
        /\ NewestChange.old_rating = InsertedLast.rating
        /\ NewestChange.rating_change = C.rating - InsertedLast.rating
        /\ NewestChange.games_played
             = C.season_match_statistics.played - InsertedLast.season_played

====
